---- MODULE Spec2Model ----
(***************************************************************************)
(* BundleBuilder (internal/engine/bundle_builder.go): staging of the       *)
(* bundle files into a workspace, composition of the staged files into one *)
(* CUE value, and extraction of the Bundle from a CUE value.               *)
(*                                                                         *)
(* A file is a path (directory, name) together with what the file system   *)
(* holds at that path (a document, or malformed text).  A CUE value is a   *)
(* tree with the two paths GetBundle reads: bundle.name, a scalar, and     *)
(* bundle.instances, a mapping from instance names to entries.             *)
(***************************************************************************)
EXTENDS Naturals, Sequences, FiniteSets

VARIABLES
    files,    \* BundleBuilder.files
    value,    \* the cue.Value the caller holds (Build's last return value)
    ret       \* the last call: operation, returned error and *Bundle, the steps
              \* it ran and those of them that failed

vars == <<files, value, ret>>

\* ----------------------------------------------------------------- bounds
MaxFiles == 2
MaxInst == 2
MaxFaults == 1

\* ------------------------------------------------------------ file names
Digit == <<"0", "1", "2", "3", "4", "5", "6", "7", "8", "9">>

\* fmt.Sprintf("%v", i) for an int i >= 0
RECURSIVE Itoa(_)
Itoa(i) == IF i < 10 THEN <<Digit[i + 1]>>
           ELSE Itoa(i \div 10) \o <<Digit[(i % 10) + 1]>>

\* a staged name without the index
StagedNameNoIndex(i, fn) == fn

\* fmt.Sprintf("%v.%s", i, fn)
StagedName(i, fn) == Itoa(i) \o <<".">> \o fn

SchemaSuffix == <<"s", "c", "h", "e", "m", "a", ".", "c", "u", "e">>

\* fmt.Sprintf("%v.schema.cue", len(b.files)+1)
SchemaName(n) == Itoa(n + 1) \o <<".">> \o SchemaSuffix

HasSuffix(s, suf) ==
    /\ Len(s) >= Len(suf)
    /\ SubSeq(s, Len(s) - Len(suf) + 1, Len(s)) = suf

\* build.File.Encoding, which the loader derives from the file extension
Encoding(name) ==
    IF HasSuffix(name, <<".", "c", "u", "e">>) THEN "cue"
    ELSE IF HasSuffix(name, <<".", "y", "a", "m", "l">>) THEN "yaml"
    ELSE IF HasSuffix(name, <<".", "j", "s", "o", "n">>) THEN "json"
    ELSE "other"

Workspace == "ws"

\* ----------------------------------------------------------------- values
Absent == "<absent>"      \* the path is not in the value
Top == "<string>"         \* the path is constrained to string, not concrete
Num == "<int>"            \* a concrete value that is not a string
Bot == "<bottom>"         \* conflicting values

IsString(x) == x \notin {Absent, Top, Num, Bot}

\* unification of two scalars
UnifyVal(a, b) ==
    IF a = Bot \/ b = Bot THEN Bot
    ELSE IF a = Absent THEN b
    ELSE IF b = Absent THEN a
    ELSE IF a = b THEN a
    ELSE IF a = Top /\ IsString(b) THEN b
    ELSE IF b = Top /\ IsString(a) THEN a
    ELSE Bot

EntryFields == {"url", "digest", "version", "namespace", "values"}

Entry(k, u, d, v, n, vals) ==
    [key |-> k, url |-> u, digest |-> d, version |-> v, namespace |-> n,
     values |-> vals]

UnifyEntry(e1, e2) ==
    [key |-> e1.key,
     url |-> UnifyVal(e1.url, e2.url),
     digest |-> UnifyVal(e1.digest, e2.digest),
     version |-> UnifyVal(e1.version, e2.version),
     namespace |-> UnifyVal(e1.namespace, e2.namespace),
     values |-> UnifyVal(e1.values, e2.values)]

Keys(es) == {es[i].key : i \in 1..Len(es)}

IndexOf(es, k) == CHOOSE i \in 1..Len(es) : es[i].key = k

RECURSIVE NewEntries(_, _)
NewEntries(es1, es2) ==
    IF es2 = <<>> THEN <<>>
    ELSE IF Head(es2).key \in Keys(es1) THEN NewEntries(es1, Tail(es2))
    ELSE <<Head(es2)>> \o NewEntries(es1, Tail(es2))

\* unification of two mappings: matching keys unify, the others pass through
UnifyEntries(es1, es2) ==
    [i \in 1..Len(es1) |->
        IF es1[i].key \in Keys(es2)
        THEN UnifyEntry(es1[i], es2[IndexOf(es2, es1[i].key)])
        ELSE es1[i]]
    \o NewEntries(es1, es2)

\* the instances path: absent, a scalar, a mapping, or a conflict
NoInsts == [kind |-> "absent", es |-> <<>>]
ScalarInsts == [kind |-> "scalar", es |-> <<>>]
BotInsts == [kind |-> "bottom", es |-> <<>>]
Insts(es) == [kind |-> "struct", es |-> es]

UnifyInsts(a, b) ==
    IF a.kind = "bottom" \/ b.kind = "bottom" THEN BotInsts
    ELSE IF a.kind = "absent" THEN b
    ELSE IF b.kind = "absent" THEN a
    ELSE IF a.kind = "scalar" /\ b.kind = "scalar" THEN a
    ELSE IF a.kind = "struct" /\ b.kind = "struct"
         THEN Insts(UnifyEntries(a.es, b.es))
    ELSE BotInsts

Tree(n, i) == [kind |-> "struct", name |-> n, insts |-> i]

\* var value cue.Value
ZeroValue == [kind |-> "zero", name |-> Absent, insts |-> NoInsts]
EmptyTree == Tree(Absent, NoInsts)
\* text that does not parse
Malformed == [kind |-> "malformed", name |-> Absent, insts |-> NoInsts]

\* cue.Value.Unify
Unify(a, b) ==
    Tree(UnifyVal(a.name, b.name), UnifyInsts(a.insts, b.insts))

\* the scalars of a value
Scalars(t) ==
    {t.name} \cup {t.insts.es[i][f] : i \in 1..Len(t.insts.es), f \in EntryFields}

\* cue.Value.Err
HasErr(t) == t.insts.kind = "bottom" \/ Bot \in Scalars(t)

\* a validation that does not ask for concrete values
IsConcreteAny(t) == TRUE

\* cue.Value.Validate(cue.Concrete(true))
IsConcrete(t) == Top \notin Scalars(t)

\* ------------------------------------------------------------ calls, errors
Step(o, i) == [op |-> o, i |-> i]
NoStep == Step("", 0)

Err(k, w, c, s) == [kind |-> k, wrap |-> w, ctx |-> c, step |-> s]
NoErr == Err("nil", "", <<>>, NoStep)

NilBundle == [nil |-> TRUE, Name |-> "", Instances |-> <<>>]

Ret(o, e, l, f) ==
    [op |-> o, err |-> e, log |-> l, failed |-> f, bundle |-> NilBundle]

File(d, n, doc) == [dir |-> d, name |-> n, doc |-> doc]

\* ---------------------------------------------------------- InitWorkspace
\* _, fn := filepath.Split(file); dstFile := filepath.Join(workspace, ...)
DstFile(i, file) == File(Workspace, StagedName(i, file.name), file.doc)

\* apiv1.BundleSchema: the bundle name is a string, the instances a mapping
SchemaDoc == Tree(Top, Insts(<<>>))

\* b.injector.Inject(f): the text of f with its @timoni() attributes replaced
Inject(doc) == doc

\* the steps of InitWorkspace on n files, in program order
IWSteps(n) ==
    [i \in 1..n |-> Step("copy", i)]
    \o [j \in 1..(2 * n) |->
          IF j % 2 = 1 THEN Step("inject", (j + 1) \div 2)
          ELSE Step("write", j \div 2)]
    \o <<Step("schema", 0)>>

\* every error returned as it is
IWErrBare(s, staged) ==
    Err(IF s.op = "inject" THEN "inject" ELSE "io", "", <<>>, s)

\* the error InitWorkspace returns for a failed step
IWErr(s, staged) ==
    IF s.op \in {"inject", "write"}
    THEN Err(IF s.op = "inject" THEN "inject" ELSE "io",
             "failed to inject", staged[s.i].name, s)
    ELSE Err("io", "", <<>>, s)

\* a run that does not return at a failed step
RunAll(steps, faults) == steps

\* the steps run: every step up to and including the first that fails
RECURSIVE RunSteps(_, _)
RunSteps(steps, faults) ==
    IF steps = <<>> THEN <<>>
    ELSE IF Head(steps) \in faults THEN <<Head(steps)>>
    ELSE <<Head(steps)>> \o RunSteps(Tail(steps), faults)

FailedOf(log, faults) == SelectSeq(log, LAMBDA s : s \in faults)

\* the file list assigned before the steps have succeeded
CommitAlways(log, faults, staged) == staged

\* b.files = files, reached only when no step returned an error
Commit(log, faults, staged) ==
    IF FailedOf(log, faults) = <<>> THEN staged ELSE files

InitWorkspace(faults) ==
    LET n == Len(files)
        staged == [i \in 1..n |->
                     [DstFile(i - 1, files[i]) EXCEPT !.doc = Inject(@)]]
        schemaFile == File(Workspace, SchemaName(n), SchemaDoc)
        log == RunSteps(IWSteps(n), faults)
        failed == FailedOf(log, faults)
    IN  /\ files' = Commit(log, faults, staged \o <<schemaFile>>)
        /\ ret' = Ret("InitWorkspace",
                      IF failed = <<>> THEN NoErr ELSE IWErr(failed[1], staged),
                      log, failed)
        /\ UNCHANGED value

\* ------------------------------------------------------------------ Build
\* the encodings of inst.OrphanedFiles (cfg.DataFiles is true)
IsOrphan(f) == Encoding(f.name) \in {"yaml", "json"}

\* load.Instances(b.files, cfg)[0].Err: a file that does not parse, or one the
\* loader has no encoding for, is an error of the instance
InstErr(fs, loadRes) ==
    \/ loadRes = "err"
    \/ \E i \in 1..Len(fs) :
          \/ Encoding(fs[i].name) = "other"
          \/ Encoding(fs[i].name) = "cue" /\ fs[i].doc.kind = "malformed"

\* b.ctx.BuildInstance(inst): the CUE files of the instance, unified
RECURSIVE BuildInstance(_, _)
BuildInstance(fs, i) ==
    IF i = 0 THEN EmptyTree
    ELSE IF Encoding(fs[i].name) = "cue"
         THEN Unify(BuildInstance(fs, i - 1), fs[i].doc)
    ELSE BuildInstance(fs, i - 1)

BState(v, e, l, f) == [v |-> v, err |-> e, log |-> l, failed |-> f]

\* a build that leaves the data files out
OverlaysNone(st, fs, i) == st

\* for _, f := range inst.OrphanedFiles { ... }, from file i on
RECURSIVE Overlays(_, _, _)
Overlays(st, fs, i) ==
    IF i > Len(fs) THEN st
    ELSE IF ~IsOrphan(fs[i]) \/ Encoding(fs[i].name) # "yaml"
         THEN Overlays(st, fs, i + 1)
    ELSE IF fs[i].doc.kind = "malformed"
         THEN BState(st.v, Err("parse", "", <<>>, Step("parse", i)),
                     Append(st.log, Step("parse", i)),
                     Append(st.failed, Step("parse", i)))
    ELSE LET u == Unify(st.v, fs[i].doc)
         IN  Overlays(
               BState(u, NoErr,
                      st.log \o <<Step("parse", i), Step("unify", i)>>,
                      IF HasErr(u) /\ ~HasErr(st.v)
                      THEN Append(st.failed, Step("unify", i))
                      ELSE st.failed),
               fs, i + 1)

\* a build that validates without looking at v.Err()
CheckedSkipErr(st) ==
    IF st.err # NoErr THEN st
    ELSE IF ~IsConcrete(st.v)
         THEN BState(st.v, Err("incomplete", "", <<>>, Step("validate", 0)),
                     Append(st.log, Step("validate", 0)),
                     Append(st.failed, Step("validate", 0)))
    ELSE BState(st.v, NoErr, Append(st.log, Step("validate", 0)), st.failed)

\* if v.Err() != nil ...; if err := v.Validate(cue.Concrete(true)) ...
Checked(st) ==
    IF st.err # NoErr THEN st
    ELSE IF HasErr(st.v)
         THEN BState(st.v, Err("conflict", "", <<>>, st.failed[1]),
                     st.log, st.failed)
    ELSE IF ~IsConcrete(st.v)
         THEN BState(st.v, Err("incomplete", "", <<>>, Step("validate", 0)),
                     Append(st.log, Step("validate", 0)),
                     Append(st.failed, Step("validate", 0)))
    ELSE BState(st.v, NoErr, Append(st.log, Step("validate", 0)), st.failed)

\* the whole of Build on the files fs
BuildOf(fs, loadRes) ==
    IF loadRes = "none"
    THEN BState(ZeroValue, Err("load", "no instances found", <<>>, Step("load", 0)),
                <<Step("load", 0)>>, <<Step("load", 0)>>)
    ELSE IF InstErr(fs, loadRes)
    THEN BState(ZeroValue, Err("load", "instance error", <<>>, Step("load", 0)),
                <<Step("load", 0)>>, <<Step("load", 0)>>)
    ELSE LET v0 == BuildInstance(fs, Len(fs))
         IN  Checked(Overlays(
               BState(v0, NoErr, <<Step("load", 0), Step("build", 0)>>,
                      IF HasErr(v0) THEN <<Step("build", 0)>> ELSE <<>>),
               fs, 1))

\* return value, err / return v, nil
Returned(st) == IF st.err = NoErr THEN st.v ELSE ZeroValue

Build(loadRes) ==
    LET st == BuildOf(files, loadRes)
    IN  /\ value' = Returned(st)
        /\ ret' = Ret("Build", st.err, st.log, st.failed)
        /\ UNCHANGED files

\* -------------------------------------------------------------- GetBundle
\* a string taken without looking at what the value is
StringOfRaw(x) == x

\* s, err := v.String(); the caller drops err
StringOf(x) == IF IsString(x) THEN x ELSE ""

\* a BundleInstance with version and digest exchanged
BundleInstanceSwapped(bundleName, e) ==
    [Bundle |-> bundleName,
     Name |-> e.key,
     Namespace |-> StringOf(e.namespace),
     Repository |-> StringOf(e.url),
     Version |-> StringOf(e.digest),
     Digest |-> StringOf(e.version),
     Values |-> e.values]

\* list = append(list, BundleInstance{...})
BundleInstance(bundleName, e) ==
    [Bundle |-> bundleName,
     Name |-> e.key,
     Namespace |-> StringOf(e.namespace),
     Repository |-> StringOf(e.url),
     Version |-> StringOf(e.version),
     Digest |-> StringOf(e.digest),
     Values |-> e.values]

LookupErr(path, s) == Err("lookup", "lookup failed", <<path>>, s)

\* a bundle name accepted when it is there, concrete or not
NameOkLoose(v) == v.kind = "struct" /\ v.name # Absent

\* bundleName, err := bundleNameValue.String(); err == nil
NameOk(v) == v.kind = "struct" /\ IsString(v.name)

GetBundleOf(v) ==
    IF ~NameOk(v)
    THEN [b |-> NilBundle,
          r |-> Ret("GetBundle", LookupErr("BundleName", Step("name", 0)),
                    <<Step("name", 0)>>, <<Step("name", 0)>>)]
    ELSE IF v.insts.kind \in {"absent", "bottom"}
    THEN [b |-> NilBundle,
          r |-> Ret("GetBundle",
                    LookupErr("BundleInstancesSelector", Step("instances", 0)),
                    <<Step("name", 0), Step("instances", 0)>>,
                    <<Step("instances", 0)>>)]
    ELSE IF v.insts.kind # "struct"
    THEN [b |-> NilBundle,
          r |-> Ret("GetBundle", Err("fields", "", <<>>, Step("fields", 0)),
                    <<Step("name", 0), Step("instances", 0), Step("fields", 0)>>,
                    <<Step("fields", 0)>>)]
    ELSE [b |-> [nil |-> FALSE, Name |-> v.name,
                 Instances |-> [i \in 1..Len(v.insts.es) |->
                                  BundleInstance(v.name, v.insts.es[i])]],
          r |-> Ret("GetBundle", NoErr,
                    <<Step("name", 0), Step("instances", 0), Step("fields", 0)>>
                    \o [i \in 1..Len(v.insts.es) |-> Step("entry", i)],
                    <<>>)]

GetBundle ==
    LET g == GetBundleOf(value)
    IN  /\ ret' = [g.r EXCEPT !.bundle = g.b]
        /\ UNCHANGED <<files, value>>

\* ----------------------------------------------------------------- inputs
NameCue == <<"a", ".", "c", "u", "e">>
NameYaml == <<"b", ".", "y", "a", "m", "l">>
NameJson == <<"c", ".", "j", "s", "o", "n">>

\* sequences over S of length at most n
SeqUpTo(S, n) == UNION {[1..k -> S] : k \in 0..n}

\* the names of the instances
InstKeys == {"x", "y", "z"}

\* bundle files told apart by their names: two may share a base name, and one
\* may be named like the schema file
StageInputs ==
    {File("in", n, EmptyTree) : n \in {NameCue, NameYaml, SchemaSuffix}}

\* bundle files told apart by what they hold
OneInst(k, u) == Insts(<<Entry(k, u, Absent, Absent, Absent, Absent)>>)

\* a data file holds concrete values only
DataDocs ==
    {Tree("a", NoInsts), Tree("b", NoInsts),
     Tree("a", OneInst("x", "u")), Tree("a", OneInst("y", "u")),
     Tree(Absent, OneInst("x", "w")), Malformed}

\* a CUE file may also leave a field open, or close it to another type
BuildDocs ==
    DataDocs
    \cup {Tree(Top, NoInsts), Tree(Absent, OneInst("x", Top)), Tree(Num, NoInsts)}

BuildInputs ==
    {File("in", NameCue, d) : d \in BuildDocs}
    \cup {File("in", NameYaml, d) : d \in DataDocs}
    \cup {File("in", NameJson, Tree("b", NoInsts))}

\* the values a caller may hand to GetBundle
EntryInputs ==
    {Entry(k, "u", "d", "v", "ns", "vals") : k \in InstKeys}
    \cup {Entry(k, Absent, "d", "v", "ns", Absent) : k \in InstKeys}
    \cup {Entry(k, "u", Absent, "v", "ns", Absent) : k \in InstKeys}
    \cup {Entry(k, "u", "d", Absent, "ns", Absent) : k \in InstKeys}
    \cup {Entry(k, "u", "d", "v", Absent, Absent) : k \in InstKeys}
    \cup {Entry(k, Top, Absent, Num, Top, Absent) : k \in InstKeys}
    \cup {Entry(k, Absent, Absent, Absent, Absent, Absent) : k \in InstKeys}

DistinctKeys(es) == \A i, j \in 1..Len(es) : es[i].key = es[j].key => i = j

GetInputs ==
    {Tree(n, i) : n \in {Absent, Top, Num}, i \in {NoInsts, Insts(<<>>)}}
    \cup {Tree("n", i) : i \in {NoInsts, ScalarInsts}}
    \cup {Tree("n", Insts(es)) :
            es \in {x \in SeqUpTo(EntryInputs, MaxInst) : DistinctKeys(x)}}

NoRet == Ret("new", NoErr, <<>>, <<>>)

\* NewBundleBuilder(ctx, files)
Init ==
    /\ ret = NoRet
    /\ \/ files \in SeqUpTo(StageInputs, MaxFiles) /\ value = ZeroValue
       \/ files \in SeqUpTo(BuildInputs, MaxFiles) /\ value = ZeroValue
       \/ files = <<>> /\ value \in GetInputs

\* the subsets of S of at most k elements
RECURSIVE SubsetsUpTo(_, _)
SubsetsUpTo(S, k) ==
    IF k = 0 THEN {{}}
    ELSE LET T == SubsetsUpTo(S, k - 1)
         IN  T \cup {F \cup {x} : F \in T, x \in S}

\* the steps of InitWorkspace that the file system or the injector fails
FaultSets(n) ==
    SubsetsUpTo({IWSteps(n)[j] : j \in 1..(3 * n + 1)}, MaxFaults)

Next ==
    \/ /\ Len(files) <= MaxFiles
       /\ \E faults \in FaultSets(Len(files)) : InitWorkspace(faults)
    \/ \E loadRes \in {"ok", "none", "err"} : Build(loadRes)
    \/ GetBundle

Spec == Init /\ [][Next]_vars

\* ------------------------------------------------------------- properties
\* the value the last GetBundle was applied to resolves both mandatory paths
NameResolves(v) == v.kind = "struct" /\ v.name \notin {Absent, Top, Num, Bot}

Resolves(v) == NameResolves(v) /\ v.insts.kind = "struct"

\* what GetBundle must report for an optional string path holding x
Reported(x, out) == (IsString(x) => out = x) /\ (x = Absent => out = "")

\* C1: GetBundle on a value whose bundle name and instances resolve returns,
\* without error, one BundleInstance per entry of the instances mapping, in
\* the mapping's order; each carries the entry's key as Name, the bundle name
\* as Bundle, and for Namespace, Version and Digest the entry's string at
\* that path, or the empty string when the path is absent.
C1_ExtractionComplete ==
    (ret.op = "GetBundle" /\ Resolves(value)) =>
        /\ ret.err = NoErr
        /\ ~ret.bundle.nil
        /\ ret.bundle.Name = value.name
        /\ Len(ret.bundle.Instances) = Len(value.insts.es)
        /\ \A i \in 1..Len(value.insts.es) :
              LET e == value.insts.es[i]
                  b == ret.bundle.Instances[i]
              IN  /\ b.Name = e.key
                  /\ b.Bundle = value.name
                  /\ Reported(e.namespace, b.Namespace)
                  /\ Reported(e.version, b.Version)
                  /\ Reported(e.digest, b.Digest)

\* two entries extracted, one of them without digest, the other complete
C1_Witness ==
    /\ ret.op = "GetBundle"
    /\ Resolves(value)
    /\ Len(ret.bundle.Instances) = MaxInst
    /\ \E i, j \in 1..Len(value.insts.es) :
          /\ value.insts.es[i].digest = Absent
          /\ value.insts.es[i].version = "v"
          /\ ret.bundle.Instances[i].Digest = ""
          /\ ret.bundle.Instances[j].Digest = "d"

\* an entry of the instances mapping has no module URL
MissingURL(v) == \E i \in 1..Len(v.insts.es) : v.insts.es[i].url = Absent

\* C2 as stated: when an entry of the instances mapping has no module URL,
\* GetBundle returns an error and no Bundle.
C2_MissingURLIsError ==
    (ret.op = "GetBundle" /\ Resolves(value) /\ MissingURL(value)) =>
        ret.err # NoErr /\ ret.bundle.nil

\* C2 amended: when an entry of the instances mapping has no module URL,
\* GetBundle returns no error, and the entry's BundleInstance has the empty
\* string as Module.Repository; an entry with a URL string carries it.
C2_MissingURLYieldsEmpty ==
    (ret.op = "GetBundle" /\ Resolves(value)) =>
        /\ ret.err = NoErr
        /\ ~ret.bundle.nil
        /\ \A i \in 1..Len(value.insts.es) :
              Reported(value.insts.es[i].url, ret.bundle.Instances[i].Repository)

C2_Witness ==
    /\ ret.op = "GetBundle"
    /\ Resolves(value)
    /\ MissingURL(value)
    /\ \E i \in 1..Len(value.insts.es) :
          /\ value.insts.es[i].url = Absent
          /\ ret.bundle.Instances[i].Repository = ""

\* C9: when the bundle name is absent or no concrete string, or the lookup of
\* the instances fails, GetBundle returns a "lookup failed" error naming
\* that path and a nil Bundle, and extracts no instance.
C9_LookupFailure ==
    ret.op = "GetBundle" =>
        /\ ~NameResolves(value) =>
              /\ ret.err.wrap = "lookup failed"
              /\ ret.err.ctx = <<"BundleName">>
        /\ (NameResolves(value) /\ value.insts.kind \in {"absent", "bottom"}) =>
              /\ ret.err.wrap = "lookup failed"
              /\ ret.err.ctx = <<"BundleInstancesSelector">>
        /\ ret.err.wrap = "lookup failed" =>
              /\ ret.bundle.nil
              /\ \A k \in 1..Len(ret.log) : ret.log[k].op # "entry"

\* the bundle name is constrained to string and not concrete
C9_Witness ==
    /\ ret.op = "GetBundle"
    /\ value.name = Top
    /\ ret.err.ctx = <<"BundleName">>
    /\ ret.bundle.nil

\* the files Build composes: the CUE files of the instance and the YAML overlays
Composed(i) == Encoding(files[i].name) \in {"cue", "yaml"}

IsConc(x) == x \notin {Absent, Top, Bot}

\* the scalar paths of a document: the bundle name, and each instance's URL
ScalarPaths == {"name"} \cup InstKeys

At(doc, p) ==
    IF p = "name" THEN doc.name
    ELSE IF p \in Keys(doc.insts.es)
         THEN doc.insts.es[IndexOf(doc.insts.es, p)].url
    ELSE Absent

\* two composed files set different concrete scalars at one path
Conflicting ==
    \E i, j \in 1..Len(files), p \in ScalarPaths :
        /\ Composed(i) /\ Composed(j)
        /\ IsConc(At(files[i].doc, p)) /\ IsConc(At(files[j].doc, p))
        /\ At(files[i].doc, p) # At(files[j].doc, p)

Setters == {i \in 1..Len(files) : Composed(i) /\ IsString(files[i].doc.name)}

LastSetter == CHOOSE i \in Setters : \A j \in Setters : j <= i

\* every file holds a well-formed document of concrete strings
AllPlain ==
    \A i \in 1..Len(files) :
        /\ files[i].doc.kind = "struct"
        /\ \A x \in Scalars(files[i].doc) : x = Absent \/ IsString(x)

Unresolved ==
    \E p \in ScalarPaths :
        /\ \E i \in 1..Len(files) : Composed(i) /\ At(files[i].doc, p) = Top
        /\ \A i \in 1..Len(files) :
              Composed(i) => At(files[i].doc, p) \in {Absent, Top}

\* C5: Build returns a value only if the composed value has no error and
\* every field of it is concrete; when a field is left unresolved, Build
\* returns an error, and with any error the zero value.
C5_ConcretenessGate ==
    ret.op = "Build" =>
        /\ ret.err = NoErr =>
              /\ value.kind = "struct"
              /\ value.insts.kind # "bottom"
              /\ Scalars(value) \cap {Top, Bot} = {}
        /\ ret.err # NoErr => value = ZeroValue
        /\ Unresolved => ret.err # NoErr

C5_Witness ==
    /\ ret.op = "Build"
    /\ Unresolved
    /\ ret.err.kind = "incomplete"
    /\ value = ZeroValue

\* the last step the last call ran
LastStep == ret.log[Len(ret.log)]

\* a failed call returns nothing else
NoPartialResult ==
    ret.err # NoErr =>
        /\ ret.bundle.nil
        /\ ret.op = "Build" => value = ZeroValue

\* C7 as stated: the first step that fails is the one whose error is
\* returned, no step runs after it, and the call returns no partial result.
C7_FailFast ==
    /\ NoPartialResult
    /\ ret.failed # <<>> =>
          /\ ret.err.step = ret.failed[1]
          /\ LastStep = ret.failed[1]

\* the steps the last call ran after step f
After(f) ==
    {ret.log[k] : k \in {m \in 1..Len(ret.log) :
                           \E l \in 1..(m - 1) : ret.log[l] = f}}

\* C7 amended: a failed call returns no partial result, and a call fails
\* exactly when one of its steps does.  A failed copy, injection, write,
\* load, parse, validation or lookup is the last step run and its error is
\* the one returned.  A conflict raised by building the instance or by
\* unifying an overlay is looked at only after the loop over the overlays:
\* the later overlays are still parsed and unified, and the error returned
\* is the conflict, or the parse error of a later overlay.
C7_FailFastButUnify ==
    /\ NoPartialResult
    /\ (ret.failed # <<>>) <=> (ret.err # NoErr)
    /\ ret.failed # <<>> =>
          LET f == ret.failed[1]
          IN  IF f.op \notin {"build", "unify"}
              THEN /\ ret.failed = <<f>>
                   /\ LastStep = f
                   /\ ret.err.step = f
              ELSE /\ \A s \in After(f) : s.op \in {"parse", "unify"} /\ s.i > f.i
                   /\ \/ ret.err.step = f /\ ret.err.kind = "conflict"
                      \/ /\ ret.err.step = LastStep
                         /\ ret.err.kind = "parse"
                         /\ LastStep \in After(f)

\* the CUE files conflict, and the parse error of an overlay is returned
C7_Witness ==
    /\ ret.op = "Build"
    /\ Len(ret.failed) = 2
    /\ ret.failed[1].op = "build"
    /\ ret.err.kind = "parse"
    /\ value = ZeroValue

\* the name under which InitWorkspace stages file i of the builder
StagedAs(i) == Itoa(i - 1) \o <<".">> \o files[i].name

\* C8 as stated: an error of InitWorkspace or Build raised while copying,
\* injecting, parsing or unifying a staged file is wrapped with the name of
\* that staged file.
C8_ErrorsCarryFileName ==
    (ret.op \in {"InitWorkspace", "Build"} /\ ret.err # NoErr
        /\ ret.err.step.op \in {"copy", "inject", "write", "parse", "unify"}) =>
        /\ ret.err.wrap # ""
        /\ ret.err.ctx \in {files[ret.err.step.i].name, StagedAs(ret.err.step.i)}

\* C8 amended: InitWorkspace and Build return an error whenever a step
\* fails.  Only the error of an injection or of writing the injected file
\* back is wrapped with the staged file's name ("failed to inject <name>");
\* a load error is wrapped as "instance error" or replaced by "no instances
\* found", without a file name; the errors of copying, of writing the
\* schema, of parsing an overlay, of unification and of validation are
\* returned as they are.
C8_OnlyInjectionNamesFile ==
    ret.op \in {"InitWorkspace", "Build"} =>
        /\ ret.failed # <<>> => ret.err # NoErr
        /\ ret.err.step.op \in {"inject", "write"} =>
              /\ ret.err.wrap = "failed to inject"
              /\ ret.err.ctx = StagedAs(ret.err.step.i)
        /\ ret.err.step.op = "load" =>
              /\ ret.err.wrap \in {"instance error", "no instances found"}
              /\ ret.err.ctx = <<>>
        /\ ret.err.step.op \in
              {"copy", "schema", "parse", "build", "unify", "validate"} =>
              /\ ret.err.wrap = ""
              /\ ret.err.ctx = <<>>

\* the injection of the second file fails
C8_Witness ==
    /\ ret.op = "InitWorkspace"
    /\ ret.err.step = Step("inject", 2)
    /\ ret.err.ctx = <<"1", ".">> \o NameYaml

\* C6: a successful InitWorkspace on the files f_1..f_n leaves as the file
\* list the workspace files <i-1>.<name of f_i>, in order, followed by the
\* schema file; the staged names are pairwise distinct, so no staged input
\* has the name of the schema file, which is last.
C6_StagedNames ==
    [][(ret'.op = "InitWorkspace" /\ ret'.err = NoErr) =>
        LET n == Len(files)
        IN  /\ Len(files') = n + 1
            /\ \A i \in 1..n :
                  /\ files'[i].dir = Workspace
                  /\ files'[i].name = StagedAs(i)
            /\ files'[n + 1].dir = Workspace
            /\ files'[n + 1].doc = SchemaDoc
            /\ HasSuffix(files'[n + 1].name, <<".">> \o SchemaSuffix)
            /\ \A i, j \in 1..(n + 1) :
                  files'[i].name = files'[j].name => i = j]_vars

\* two inputs that share the base name schema.cue have been staged
C6_Witness ==
    /\ ret.op = "InitWorkspace"
    /\ ret.err = NoErr
    /\ Len(files) = 3
    /\ files[1].name = <<"0", ".">> \o SchemaSuffix
    /\ files[2].name = <<"1", ".">> \o SchemaSuffix
    /\ files[3].name = <<"3", ".">> \o SchemaSuffix

\* C10: a failed InitWorkspace leaves the file list as it was, a successful
\* one replaces its n paths by n + 1 staged paths, and Build and GetBundle
\* leave the file list as it was.
C10_FilesFrame ==
    [][/\ (ret'.op = "InitWorkspace" /\ ret'.err # NoErr) => files' = files
       /\ (ret'.op = "InitWorkspace" /\ ret'.err = NoErr) =>
             /\ Len(files') = Len(files) + 1
             /\ \A i \in 1..Len(files') : files'[i].dir = Workspace
       /\ ret'.op \in {"Build", "GetBundle"} => files' = files]_vars

\* the write of the schema failed after every file was copied and injected
C10_Witness ==
    /\ ret.op = "InitWorkspace"
    /\ ret.err.step.op = "schema"
    /\ Len(files) = MaxFiles
    /\ \A i \in 1..Len(files) : files[i].dir = "in"
====
